---- MODULE Spec2Model ----
(***************************************************************************)
(* A model of smt/methods/rmtc.py: the RMTC surrogate (regularized        *)
(* minimal-energy tensor-product cubic Hermite spline).                   *)
(*                                                                         *)
(* The state is the model object's option table, the shape of its         *)
(* training data, the table of counts `num` stored by _initialize, and    *)
(* the values (with the locals that produced them) returned by the most   *)
(* recent _compute_dof2coeff and _compute_jac_raw calls.                   *)
(*                                                                         *)
(* Floating-point numbers are modelled as exact rationals <<n, d>> in     *)
(* lowest terms with d > 0.  Integers stay far below the 64 bit width of  *)
(* the numpy arrays within the bounds used here.                          *)
(*                                                                         *)
(* The compiled kernels of RMTClib (compute_coeff2nodal,                  *)
(* compute_uniq2elem, compute_full_from_block, compute_jac) are called by *)
(* rmtc.py but their code is not part of the Python sources; they are     *)
(* modelled from sections 4.1-4.5 of the design document with one flat    *)
(* row-major index convention.                                            *)
(***************************************************************************)
EXTENDS Integers, Sequences, FiniteSets, TLC

VARIABLES options, training_points, given, pc, num, d2c, jac

vars == <<options, training_points, given, pc, num, d2c, jac>>

(***************************************************************************)
(* Bounds of the model.                                                    *)
(***************************************************************************)
MaxNx == 2        \* largest number of input dimensions
MaxElems == 2     \* largest explicitly configured number of elements per axis
MaxPts == 2       \* largest number of query points in one batch
Sub == 2          \* query points per element edge: lattice spacing is h / Sub
MaxDof == 36      \* operators are assembled for grids of at most MaxDof dofs

(***************************************************************************)
(* Program constants.                                                      *)
(***************************************************************************)
DefaultNumElements == 4   \* declare('num_elements', 4, ...)
TermsPerAxis == 4         \* num['term_list'] = 4 * np.ones(num['x'], int)

(***************************************************************************)
(* Exact rational arithmetic standing for float64.                         *)
(***************************************************************************)
Abs(a) == IF a < 0 THEN -a ELSE a

RECURSIVE GCD(_, _)
GCD(a, b) == IF b = 0 THEN a ELSE GCD(b, a % b)

RNorm(n, d) ==
    LET s == IF d < 0 THEN -1 ELSE 1
        g == GCD(Abs(n), Abs(d))
    IN <<(s * n) \div g, (s * d) \div g>>

R(n) == <<n, 1>>

RAdd(a, b) == RNorm(a[1] * b[2] + b[1] * a[2], a[2] * b[2])

RSub(a, b) == RNorm(a[1] * b[2] - b[1] * a[2], a[2] * b[2])

RMul(a, b) == RNorm(a[1] * b[1], a[2] * b[2])

RDiv(a, b) == RNorm(a[1] * b[2], a[2] * b[1])

RFloor(a) == a[1] \div a[2]

RLeq(a, b) == a[1] * b[2] <= b[1] * a[2]

RECURSIVE RPow(_, _)
RPow(a, k) == IF k = 0 THEN R(1) ELSE RMul(a, RPow(a, k - 1))

Force(s) == SubSeq(s, 1, Len(s))

Min(S) == CHOOSE x \in S : \A y \in S : x <= y

(***************************************************************************)
(* numpy helpers used by _initialize.                                      *)
(***************************************************************************)
RECURSIVE prod(_)
prod(s) == IF Len(s) = 0 THEN 1 ELSE Head(s) * prod(Tail(s))

\* isinstance(options[name], (int, float))
IsIntOrFloat(opt) == opt.kind \in {"int", "float"}

\* options[name] = [options[name]] * nx, for the scalars the test accepts
broadcast(opt, nx) ==
    IF IsIntOrFloat(opt)
    THEN [kind |-> "list", val |-> [i \in 1..nx |-> opt.val[1]]]
    ELSE opt

\* np.atleast_1d: a scalar becomes an array of one entry, a list an array
atleast_1d(opt) == [kind |-> "ndarray", val |-> opt.val]

(***************************************************************************)
(* RMTC._initialize, lines 48-81.                                          *)
(***************************************************************************)
\* nx = self.training_points[None][0][0].shape[1]
shape_x(tp) == tp[0].xshape[2]

\* self.training_points[None][0][1].shape[1]
shape_y(tp) == tp[0].yshape[2]

\* the loop over 'smoothness' and 'num_elements', lines 52-55
convert_option(opt, nx) == atleast_1d(broadcast(opt, nx))

\* num['elem_list'] = np.array(options['num_elements'], int)
num_elem_list(opts) == opts.num_elements.val

\* num['elem'] = np.prod(num['elem_list'])
num_elem(elem_list) == prod(elem_list)

\* num['term_list'] = 4 * np.ones(num['x'], int)
num_term_list(x) == [a \in 1..x |-> TermsPerAxis]

\* num['term'] = np.prod(num['term_list'])
num_term(term_list) == prod(term_list)

\* a slip: the node counts taken to be the element counts
num_uniq_list_elems(elem_list) == elem_list

\* num['uniq_list'] = num['elem_list'] + 1
num_uniq_list(elem_list) == [a \in 1..Len(elem_list) |-> elem_list[a] + 1]

\* num['uniq'] = np.prod(num['uniq_list'])
num_uniq(uniq_list) == prod(uniq_list)

\* num['t']: the rows of every entry of training_points[None]
RECURSIVE num_t(_, _)
num_t(tp, keys) ==
    IF keys = {} THEN 0
    ELSE LET kx == Min(keys) IN tp[kx].xshape[1] + num_t(tp, keys \ {kx})

\* num['coeff'] = num['term'] * num['elem']
num_coeff(term, elem) == term * elem

\* num['support'] = num['term']
num_support(term) == term

\* num['dof'] = num['uniq'] * 2 ** num['x']
num_dof(uniq, x) == uniq * 2 ^ x

compute_num(opts, tp) ==
    LET x == shape_x(tp)
        elem_list == num_elem_list(opts)
        elem == num_elem(elem_list)
        term_list == num_term_list(x)
        term == num_term(term_list)
        uniq_list == num_uniq_list(elem_list)
        uniq == num_uniq(uniq_list)
    IN [x |-> x, y |-> shape_y(tp),
        elem_list |-> elem_list, elem |-> elem,
        term_list |-> term_list, term |-> term,
        uniq_list |-> uniq_list, uniq |-> uniq,
        t |-> num_t(tp, DOMAIN tp),
        coeff |-> num_coeff(term, elem),
        support |-> num_support(term),
        dof |-> num_dof(uniq, x)]

NoNum ==
    [x |-> 0, y |-> 0, elem_list |-> <<>>, elem |-> 0, term_list |-> <<>>,
     term |-> 0, uniq_list |-> <<>>, uniq |-> 0, t |-> 0, coeff |-> 0,
     support |-> 0, dof |-> 0]

(***************************************************************************)
(* numpy / scipy operations used by _compute_dof2coeff.                    *)
(* A dense matrix is a sequence of rows.  A sparse matrix is a record      *)
(* [ok, shape, rows] where rows[i] maps the stored columns of row i to     *)
(* their values; ok is FALSE when the constructor raises ValueError.       *)
(***************************************************************************)
RECURSIVE RSum(_, _)
RSum(f, S) ==
    IF S = {} THEN R(0)
    ELSE LET k == Min(S) IN RAdd(f[k], RSum(f, S \ {k}))

NoSparse == [ok |-> FALSE, shape |-> <<0, 0>>, rows |-> <<>>]

\* scipy.sparse.csc_matrix((data, (rows, cols)), shape=shape): entries with
\* the same position are summed, an index outside the shape is an error
csc_matrix(trip, shape) ==
    LET K == 1..Len(trip.rows)
        inside(k) == /\ trip.rows[k] >= 0 /\ trip.rows[k] < shape[1]
                     /\ trip.cols[k] >= 0 /\ trip.cols[k] < shape[2]
    IN IF \E k \in K : ~inside(k)
       THEN [ok |-> FALSE, shape |-> shape, rows |-> <<>>]
       ELSE [ok |-> TRUE, shape |-> shape,
             rows |-> [i \in 0..(shape[1] - 1) |->
                 LET Ki == {k \in K : trip.rows[k] = i}
                 IN [j \in {trip.cols[k] : k \in Ki} |->
                        RSum(trip.data, {k \in Ki : trip.cols[k] = j})]]]

\* the sparse product A * B
sparse_mul(A, B) ==
    IF ~A.ok \/ ~B.ok \/ A.shape[2] # B.shape[1]
    THEN [ok |-> FALSE, shape |-> <<A.shape[1], B.shape[2]>>, rows |-> <<>>]
    ELSE [ok |-> TRUE, shape |-> <<A.shape[1], B.shape[2]>>,
          rows |-> [i \in 0..(A.shape[1] - 1) |->
              LET Ks == DOMAIN A.rows[i]
              IN [j \in UNION {DOMAIN B.rows[k] : k \in Ks} |->
                     LET Kj == {k \in Ks : j \in DOMAIN B.rows[k]}
                     IN RSum([k \in Kj |-> RMul(A.rows[i][k], B.rows[k][j])], Kj)]]]

\* np.linalg.inv by Gauss-Jordan elimination on [M | I]; ok is FALSE when M
\* is singular (LinAlgError)
Augment(M) ==
    LET n == Len(M)
    IN Force([i \in 1..n |-> Force([j \in 1..(2 * n) |->
           IF j <= n THEN M[i][j] ELSE IF j - n = i THEN R(1) ELSE R(0)])])

PivotRows(A, k) == {r \in k..Len(A) : A[r][k][1] # 0}

Eliminate(A, k) ==
    LET n == Len(A)
        pr == Min(PivotRows(A, k))
        B == Force([i \in 1..n |->
                 IF i = k THEN A[pr] ELSE IF i = pr THEN A[k] ELSE A[i]])
        rowk == Force([j \in 1..(2 * n) |-> RDiv(B[k][j], B[k][k])])
    IN Force([i \in 1..n |->
           IF i = k THEN rowk
           ELSE IF B[i][k][1] = 0 THEN B[i]
           ELSE Force([j \in 1..(2 * n) |->
                    RSub(B[i][j], RMul(B[i][k], rowk[j]))])])

RECURSIVE GaussJordan(_, _)
GaussJordan(A, k) ==
    IF k > Len(A) THEN [ok |-> TRUE, A |-> A]
    ELSE IF PivotRows(A, k) = {} THEN [ok |-> FALSE, A |-> A]
    ELSE GaussJordan(Eliminate(A, k), k + 1)

linalg_inv(M) ==
    LET n == Len(M)
        r == GaussJordan(Augment(M), 1)
    IN [ok |-> r.ok,
        mat |-> IF r.ok
                THEN Force([i \in 1..n |-> Force([j \in 1..n |-> r.A[i][j + n]])])
                ELSE <<>>]

(***************************************************************************)
(* The kernels of RMTClib, modelled from the design document.              *)
(* Flat indices are row-major (the last axis varies fastest) and 0-based.  *)
(* A local nodal slot along one axis is d = 2 * corner + deriv: corner is  *)
(* the endpoint t = 0 or t = 1, deriv says whether the derivative along    *)
(* that axis is taken.  A polynomial term along one axis is its power p.   *)
(***************************************************************************)
expand_index(nlist, index) ==
    [a \in 1..Len(nlist) |->
        (index \div prod(SubSeq(nlist, a + 1, Len(nlist)))) % nlist[a]]

RECURSIVE contract_index(_, _)
contract_index(nlist, ilist) ==
    IF Len(nlist) = 0 THEN 0
    ELSE ilist[1] * prod(Tail(nlist)) + contract_index(Tail(nlist), Tail(ilist))

slot_corner(d) == d \div 2

slot_deriv(d) == d % 2

Fours(nx) == [a \in 1..nx |-> 4]

Twos(nx) == [a \in 1..nx |-> 2]

\* the o-th derivative of t^p at t: p (p-1) ... (p-o+1) t^(p-o)
RECURSIVE falling(_, _)
falling(p, o) == IF o = 0 THEN 1 ELSE p * falling(p - 1, o - 1)

dpow(p, o, t) == IF p < o THEN R(0) ELSE RMul(R(falling(p, o)), RPow(t, p - o))

RECURSIVE RProd(_, _)
RProd(f, a) == IF a > Len(f) THEN R(1) ELSE RMul(f[a], RProd(f, a + 1))

\* coeff2nodal[slot][term]: the slot's value or derivative of the term's
\* monomial at the slot's corner of the reference element
compute_coeff2nodal(nx, term) ==
    Force([i \in 1..term |-> Force([j \in 1..term |->
        LET d == expand_index(Fours(nx), i - 1)
            p == expand_index(Fours(nx), j - 1)
        IN RProd([a \in 1..nx |->
               dpow(p[a], slot_deriv(d[a]), R(slot_corner(d[a])))], 1)])])

\* one triplet per (element, local nodal slot): the slot's row and the
\* column of the (node, derivative subset) it addresses
compute_uniq2elem(nnz, nx, elem_list) ==
    LET term == 4 ^ nx
        filled == prod(elem_list) * term
        uniq_list == [a \in 1..nx |-> elem_list[a] + 1]
        col(k) ==
            LET e == expand_index(elem_list, k \div term)
                d == expand_index(Fours(nx), k % term)
                node == [a \in 1..nx |-> e[a] + slot_corner(d[a])]
                deriv == [a \in 1..nx |-> slot_deriv(d[a])]
            IN contract_index(uniq_list, node) * 2 ^ nx
                 + contract_index(Twos(nx), deriv)
    IN [data |-> [k \in 1..nnz |-> IF k <= filled THEN R(1) ELSE R(0)],
        rows |-> [k \in 1..nnz |-> IF k <= filled THEN k - 1 ELSE 0],
        cols |-> [k \in 1..nnz |-> IF k <= filled THEN col(k - 1) ELSE 0]]

\* the block repeated on the diagonal, once per element
compute_full_from_block(nnz, term, elem, block) ==
    LET filled == term * term * elem
        ielem(k) == k \div (term * term)
        i(k) == (k % (term * term)) \div term
        j(k) == k % term
    IN [data |-> [k \in 1..nnz |->
                    IF k <= filled THEN block[i(k - 1) + 1][j(k - 1) + 1] ELSE R(0)],
        rows |-> [k \in 1..nnz |->
                    IF k <= filled THEN ielem(k - 1) * term + i(k - 1) ELSE 0],
        cols |-> [k \in 1..nnz |->
                    IF k <= filled THEN ielem(k - 1) * term + j(k - 1) ELSE 0]]

\* one row per query point: the point's element is located per axis (the
\* upper bound of the domain belongs to the last element), and the term
\* monomials, differentiated along ix1 and ix2 (0: no axis), are evaluated
\* at the local coordinate and stored in the element's column block
jac_cell(elem_list, xlimits, pt, a) ==
    LET q == RMul(RDiv(RSub(pt[a], R(xlimits[a][1])),
                       R(xlimits[a][2] - xlimits[a][1])), R(elem_list[a]))
        f == RFloor(q)
    IN IF f < 0 THEN 0 ELSE IF f > elem_list[a] - 1 THEN elem_list[a] - 1 ELSE f

jac_local(elem_list, xlimits, pt, a) ==
    LET q == RMul(RDiv(RSub(pt[a], R(xlimits[a][1])),
                       R(xlimits[a][2] - xlimits[a][1])), R(elem_list[a]))
    IN RSub(q, R(jac_cell(elem_list, xlimits, pt, a)))

compute_jac(ix1, ix2, nnz, nx, n, elem_list, xlimits, x) ==
    LET term == 4 ^ nx
        filled == n * term
        order(a) == (IF ix1 = a THEN 1 ELSE 0) + (IF ix2 = a THEN 1 ELSE 0)
        ielem(ipt) == contract_index(elem_list,
                          [a \in 1..nx |-> jac_cell(elem_list, xlimits, x[ipt], a)])
        val(k) ==
            LET ipt == (k \div term) + 1
                p == expand_index(Fours(nx), k % term)
            IN RProd([a \in 1..nx |->
                   dpow(p[a], order(a), jac_local(elem_list, xlimits, x[ipt], a))], 1)
    IN [data |-> Force([k \in 1..nnz |-> IF k <= filled THEN val(k - 1) ELSE R(0)]),
        rows |-> Force([k \in 1..nnz |-> IF k <= filled THEN (k - 1) \div term ELSE 0]),
        cols |-> Force([k \in 1..nnz |->
                    IF k <= filled
                    THEN ielem(((k - 1) \div term) + 1) * term + ((k - 1) % term)
                    ELSE 0])]

(***************************************************************************)
(* RMTC._compute_jac_raw, lines 83-87.                                     *)
(***************************************************************************)
\* n = x.shape[0]
jac_n(x) == Len(x)

\* a slip: the entries counted per element instead of per term
jac_nnz_elem(n, nm) == n * nm.elem

\* nnz = n * self.num['term']
jac_nnz(n, nm) == n * nm.term

\* a slip: the node counts handed to the kernel as the element counts
compute_jac_raw_uniq(ix1, ix2, x, nm, opts) ==
    compute_jac(ix1, ix2, jac_nnz(jac_n(x), nm), nm.x, jac_n(x),
                nm.uniq_list, opts.xlimits, x)

compute_jac_raw(ix1, ix2, x, nm, opts) ==
    compute_jac(ix1, ix2, jac_nnz(jac_n(x), nm), nm.x, jac_n(x),
                nm.elem_list, opts.xlimits, x)

(***************************************************************************)
(* RMTC._compute_dof2coeff, lines 89-122.                                  *)
(***************************************************************************)
\* elem_coeff2nodal = RMTClib.compute_coeff2nodal(num['x'], num['term'])
elem_coeff2nodal_of(nm) == compute_coeff2nodal(nm.x, nm.term)

\* a slip: the factor elem forgotten
uniq2elem_nnz_one(nm) == nm.term

\* nnz = num['elem'] * num['term']
uniq2elem_nnz(nm) == nm.elem * nm.term

\* num_coeff_elem = num['term'] * num['elem']
num_coeff_elem(nm) == nm.term * nm.elem

\* num_coeff_uniq = num['uniq'] * 2 ** num['x']
num_coeff_uniq(nm) == nm.uniq * 2 ^ nm.x

\* a slip: the node counts handed to the kernel as the element counts
full_uniq2elem_uniq(nm) ==
    csc_matrix(compute_uniq2elem(uniq2elem_nnz(nm), nm.x, nm.uniq_list),
               <<num_coeff_elem(nm), num_coeff_uniq(nm)>>)

\* lines 107-109
full_uniq2elem_of(nm) ==
    csc_matrix(compute_uniq2elem(uniq2elem_nnz(nm), nm.x, nm.elem_list),
               <<num_coeff_elem(nm), num_coeff_uniq(nm)>>)

\* a slip: the square forgotten
block_nnz_linear(nm) == nm.term * nm.elem

\* nnz = num['term'] ** 2 * num['elem']
block_nnz(nm) == nm.term ^ 2 * nm.elem

\* num_coeff = num['term'] * num['elem']
num_coeff_of(nm) == nm.term * nm.elem

\* lines 115-118
full_nodal2coeff_of(nm, block) ==
    csc_matrix(compute_full_from_block(block_nnz(nm), nm.term, nm.elem, block),
               <<num_coeff_of(nm), num_coeff_of(nm)>>)

\* slips: one of the two factors returned instead of the product
full_dof2coeff_nodal(full_nodal2coeff, full_uniq2elem) == full_nodal2coeff

full_dof2coeff_map(full_nodal2coeff, full_uniq2elem) == full_uniq2elem

\* full_dof2coeff = full_nodal2coeff * full_uniq2elem
full_dof2coeff_of(full_nodal2coeff, full_uniq2elem) ==
    sparse_mul(full_nodal2coeff, full_uniq2elem)

NoD2c ==
    [status |-> "none", elem_coeff2nodal |-> <<>>, elem_nodal2coeff |-> <<>>,
     full_uniq2elem |-> NoSparse, full_nodal2coeff |-> NoSparse,
     full_dof2coeff |-> NoSparse]

compute_dof2coeff(nm) ==
    LET c2n == elem_coeff2nodal_of(nm)
        inv == linalg_inv(c2n)
        U == full_uniq2elem_of(nm)
        N == full_nodal2coeff_of(nm, inv.mat)
        D == full_dof2coeff_of(N, U)
    IN IF ~inv.ok THEN [NoD2c EXCEPT !.status = "LinAlgError",
                                     !.elem_coeff2nodal = c2n]
       ELSE IF ~U.ok \/ ~N.ok \/ ~D.ok
            THEN [NoD2c EXCEPT !.status = "ValueError",
                               !.elem_coeff2nodal = c2n,
                               !.elem_nodal2coeff = inv.mat]
       ELSE [status |-> "ok", elem_coeff2nodal |-> c2n,
             elem_nodal2coeff |-> inv.mat, full_uniq2elem |-> U,
             full_nodal2coeff |-> N, full_dof2coeff |-> D]

(***************************************************************************)
(* Inputs.                                                                 *)
(***************************************************************************)
SeqsOf(S, n) == [1..n -> S]

\* the values the declaration of 'num_elements' accepts: Integral (a Python
\* int, or another Integral type such as a numpy integer), list, ndarray
NumElementsValues ==
    {[kind |-> "int", val |-> <<v>>] : v \in (-1..MaxElems) \cup {DefaultNumElements}}
    \cup {[kind |-> "integral", val |-> <<v>>] : v \in 1..MaxElems}
    \cup {[kind |-> "list", val |-> l] :
            l \in UNION {SeqsOf(-1..MaxElems, n) : n \in 1..MaxNx}}
    \cup {[kind |-> "ndarray", val |-> l] :
            l \in UNION {SeqsOf({1}, n) : n \in 1..MaxNx}}

\* options['xlimits']: nx pairs <<low, high>>; the first axis is the unit
\* interval, and for one input also an interval that does not start at 0
XLimitsValues(nx) ==
    {[a \in 1..nx |-> IF a = 1 THEN <<0, 1>> ELSE <<0 - a, 2 * a>>]}
    \cup (IF nx = 1 THEN {[a \in 1..nx |-> <<0 - a, 2 * a>>]} ELSE {})

TrainingPoints(nx) ==
    [kx \in {0} |-> [xshape |-> <<MaxPts, nx>>, yshape |-> <<MaxPts, 1>>]]

\* the grid of candidate query points: Sub steps per element on every axis
LatticeShape(nm) == [a \in 1..nm.x |-> nm.elem_list[a] * Sub + 1]

LatticePoint(nm, xlimits, idx) ==
    LET k == expand_index(LatticeShape(nm), idx)
    IN [a \in 1..nm.x |->
           RAdd(R(xlimits[a][1]),
                RNorm((xlimits[a][2] - xlimits[a][1]) * k[a], nm.elem_list[a] * Sub))]

Batch(nm, xlimits, start, n) ==
    [i \in 1..n |->
        LatticePoint(nm, xlimits, (start + i - 1) % prod(LatticeShape(nm)))]

\* nx >= 1 and elem_list is a sequence of nx positive integers
ValidGrid(nm) ==
    /\ nm.x >= 1
    /\ Len(nm.elem_list) = nm.x
    /\ \A a \in 1..Len(nm.elem_list) : nm.elem_list[a] >= 1

NoJac ==
    [status |-> "none", ix1 |-> 0, ix2 |-> 0, x |-> <<>>,
     data |-> <<>>, rows |-> <<>>, cols |-> <<>>]

(***************************************************************************)
(* The state machine.                                                      *)
(***************************************************************************)
Init ==
    /\ \E nx \in 1..MaxNx :
         /\ training_points = TrainingPoints(nx)
         /\ \E ne \in NumElementsValues, xl \in XLimitsValues(nx) :
              options = [num_elements |-> ne,
                         smoothness |-> [kind |-> "float", val |-> <<1>>],
                         xlimits |-> xl]
    /\ given = options.num_elements
    /\ pc = "declared"
    /\ num = NoNum
    /\ d2c = NoD2c
    /\ jac = NoJac

Initialize ==
    LET nx == shape_x(training_points)
        opts == [options EXCEPT !.smoothness = convert_option(@, nx),
                                !.num_elements = convert_option(@, nx)]
    IN /\ options' = opts
       /\ num' = compute_num(opts, training_points)
       /\ pc' = "initialized"
       /\ UNCHANGED <<training_points, given, d2c, jac>>

\* The kernels are specified for valid grids only, so the two operations
\* below are taken on valid grids, of at most MaxDof degrees of freedom.
\* The operator is assembled once per model, before the evaluator is used.
ComputeDof2coeff ==
    /\ pc = "initialized"
    /\ ValidGrid(num)
    /\ num.dof <= MaxDof
    /\ d2c.status = "none"
    /\ jac.status = "none"
    /\ d2c' = compute_dof2coeff(num)
    /\ UNCHANGED <<options, training_points, given, pc, num, jac>>

\* A call reads num and options only, which no call changes: one call per
\* behaviour reaches every batch.
ComputeJacRaw ==
    /\ pc = "initialized"
    /\ ValidGrid(num)
    /\ num.dof <= MaxDof
    /\ jac.status = "none"
    /\ \E ix1 \in 0..num.x, ix2 \in 0..num.x, n \in 1..MaxPts,
          start \in 0..(prod(LatticeShape(num)) - 1) :
         LET x == Batch(num, options.xlimits, start, n)
             r == compute_jac_raw(ix1, ix2, x, num, options)
         IN jac' = [status |-> "ok", ix1 |-> ix1, ix2 |-> ix2, x |-> x,
                    data |-> r.data, rows |-> r.rows, cols |-> r.cols]
    /\ UNCHANGED <<options, training_points, given, pc, num, d2c>>

Next == Initialize \/ ComputeDof2coeff \/ ComputeJacRaw

Spec == Init /\ [][Next]_vars

(***************************************************************************)
(* Vocabulary of the properties.                                           *)
(***************************************************************************)
Elements(nm) == 0..(nm.elem - 1)

ElemIndex(nm, e) == expand_index(nm.elem_list, e)

\* the node and the derivative subset addressed by a column of the map
ColNode(nm, j) == expand_index(nm.uniq_list, j \div (2 ^ nm.x))

ColDeriv(nm, j) == j % (2 ^ nm.x)

\* node nd is a corner of element e
IsCornerOf(nm, nd, e) ==
    \A a \in 1..nm.x : nd[a] - ElemIndex(nm, e)[a] \in {0, 1}

ElementsAt(nm, nd) == {e \in Elements(nm) : IsCornerOf(nm, nd, e)}

DomainCorner(nm, nd) == \A a \in 1..nm.x : nd[a] \in {0, nm.elem_list[a]}

InteriorNode(nm, nd) == \A a \in 1..nm.x : nd[a] > 0 /\ nd[a] < nm.elem_list[a]

\* the node and derivative subset a local nodal slot of an element addresses
SlotNode(nm, e, s) ==
    LET d == expand_index(Fours(nm.x), s)
    IN [a \in 1..nm.x |-> ElemIndex(nm, e)[a] + slot_corner(d[a])]

SlotDeriv(nm, s) ==
    LET d == expand_index(Fours(nm.x), s)
    IN [a \in 1..nm.x |-> slot_deriv(d[a])]

\* _compute_dof2coeff has just returned
Assembled == d2c.status = "none" /\ d2c'.status # "none"

\* the entries of the evaluator that belong to query point ipt
JacEntries(ipt) == {k \in 1..Len(jac.rows) : jac.rows[k] = ipt - 1}

JacBlocks(ipt) == {jac.cols[k] \div num.term : k \in JacEntries(ipt)}

\* the position of a point along axis a in units of the element width
AxisPos(pt, a) ==
    RMul(RDiv(RSub(pt[a], R(options.xlimits[a][1])),
              R(options.xlimits[a][2] - options.xlimits[a][1])),
         R(num.elem_list[a]))

LocalCoord(e, pt, a) == RSub(AxisPos(pt, a), R(ElemIndex(num, e)[a]))

InUnit(t) == RLeq(R(0), t) /\ RLeq(t, R(1))

\* the closed box of element e contains the point
Contains(e, pt) == \A a \in 1..num.x : InUnit(LocalCoord(e, pt, a))

OnBoundary(pt) == \E a \in 1..num.x : AxisPos(pt, a)[2] = 1

OnInnerBoundary(pt) ==
    \E a \in 1..num.x :
        /\ AxisPos(pt, a)[2] = 1
        /\ AxisPos(pt, a)[1] > 0
        /\ AxisPos(pt, a)[1] < num.elem_list[a]

OnUpperBound(pt) ==
    \E a \in 1..num.x : AxisPos(pt, a) = R(num.elem_list[a])

RECURSIVE ProdPlusOne(_)
ProdPlusOne(s) == IF Len(s) = 0 THEN 1 ELSE (Head(s) + 1) * ProdPlusOne(Tail(s))

(***************************************************************************)
(* C1: for every valid configuration the counts stored by _initialize are  *)
(* term = 4^nx, uniq = the product of elem_list[axis] + 1, dof = uniq *    *)
(* 2^nx, coeff = term * elem and support = term, and the operator returned *)
(* by _compute_dof2coeff has shape (coeff, dof).                           *)
(***************************************************************************)
C1_Counts ==
    (pc = "initialized" /\ ValidGrid(num)) =>
        /\ num.term = 4 ^ num.x
        /\ num.uniq = ProdPlusOne(num.elem_list)
        /\ num.dof = num.uniq * 2 ^ num.x
        /\ num.coeff = num.term * num.elem
        /\ num.support = num.term
        /\ (d2c.status # "none" =>
              /\ d2c.status = "ok"
              /\ d2c.full_dof2coeff.shape = <<num.coeff, num.dof>>)

C1_Witness ==
    /\ pc = "initialized"
    /\ num.elem_list = <<2, 1>>
    /\ d2c.status = "ok"
    /\ d2c.full_dof2coeff.shape = <<32, 24>>

(***************************************************************************)
(* C2: in the Node Sharing Map every one of the term * elem rows has       *)
(* exactly one stored entry, equal to 1, and every one of the uniq * 2^nx  *)
(* columns has as many entries as there are elements with the column's     *)
(* node as a corner: at least 1, exactly 1 for a corner of the domain, at  *)
(* most 2^nx, and 2^nx only for interior nodes.                            *)
(***************************************************************************)
C2_Map(dc, nm) ==
    LET U == dc.full_uniq2elem
        count(j) == Cardinality({i \in 0..(U.shape[1] - 1) : j \in DOMAIN U.rows[i]})
    IN /\ dc.status = "ok"
       /\ U.shape = <<nm.term * nm.elem, nm.uniq * 2 ^ nm.x>>
       /\ \A i \in 0..(U.shape[1] - 1) :
            /\ Cardinality(DOMAIN U.rows[i]) = 1
            /\ \A j \in DOMAIN U.rows[i] : U.rows[i][j] = R(1)
       /\ \A j \in 0..(U.shape[2] - 1) :
            LET nd == ColNode(nm, j)
                c == count(j)
            IN /\ c = Cardinality(ElementsAt(nm, nd))
               /\ c >= 1
               /\ c <= 2 ^ nm.x
               /\ (DomainCorner(nm, nd) => c = 1)
               /\ (c = 2 ^ nm.x => InteriorNode(nm, nd))

C2_NodeSharingMap == [][Assembled => C2_Map(d2c', num')]_vars

C2_Witness ==
    /\ d2c.status = "ok"
    /\ num.elem_list = <<2, 2>>
    /\ Cardinality({i \in 0..63 : 16 \in DOMAIN d2c.full_uniq2elem.rows[i]}) = 4

(***************************************************************************)
(* C3: local nodal slots of two elements that address the same node and    *)
(* the same derivative subset are mapped to the same global dof column, so *)
(* both elements receive the same value from any degree-of-freedom vector. *)
(***************************************************************************)
C3_Map(dc, nm) ==
    LET U == dc.full_uniq2elem
        quantity == [r \in 0..(nm.coeff - 1) |->
                        <<SlotNode(nm, r \div nm.term, r % nm.term),
                          SlotDeriv(nm, r % nm.term)>>] @@ <<>>
        \* what row r receives from the dof vector v[j] = j + 1
        received == [r \in 0..(nm.coeff - 1) |->
                        RSum([j \in DOMAIN U.rows[r] |->
                                 RMul(U.rows[r][j], R(j + 1))],
                             DOMAIN U.rows[r])] @@ <<>>
    IN /\ dc.status = "ok"
       /\ \A r1, r2 \in 0..(nm.coeff - 1) :
            quantity[r1] = quantity[r2] =>
                /\ DOMAIN U.rows[r1] = DOMAIN U.rows[r2]
                /\ received[r1] = received[r2]

C3_SharedDofs == [][Assembled => C3_Map(d2c', num')]_vars

\* element 0 (corner 1,1) and element 3 (corner 0,0) of a 2 x 2 grid share
\* the interior node
C3_Witness ==
    /\ d2c.status = "ok"
    /\ num.elem_list = <<2, 2>>
    /\ SlotNode(num, 0, 10) = SlotNode(num, 3, 0)
    /\ DOMAIN d2c.full_uniq2elem.rows[10] = DOMAIN d2c.full_uniq2elem.rows[48]

(***************************************************************************)
(* C4: for every batch of n query points inside xlimits and every          *)
(* derivative request, the evaluator has n rows and term * elem columns,   *)
(* every row has exactly term stored positions, all of them in the column  *)
(* block of one element, which contains the row's point, and n * term      *)
(* entries are stored in all.                                              *)
(***************************************************************************)
C4_JacLocality ==
    jac.status = "ok" =>
        LET n == Len(jac.x)
        IN /\ Len(jac.data) = n * num.term
           /\ Len(jac.rows) = n * num.term
           /\ Len(jac.cols) = n * num.term
           /\ \A k \in 1..Len(jac.rows) :
                /\ jac.rows[k] \in 0..(n - 1)
                /\ jac.cols[k] \in 0..(num.term * num.elem - 1)
           /\ \A ipt \in 1..n :
                /\ Cardinality(JacEntries(ipt)) = num.term
                /\ Cardinality({jac.cols[k] : k \in JacEntries(ipt)}) = num.term
                /\ \E e \in Elements(num) :
                     /\ JacBlocks(ipt) = {e}
                     /\ Contains(e, jac.x[ipt])

\* a batch of two points that lie in different elements of a 2 x 2 grid
C4_Witness ==
    /\ jac.status = "ok"
    /\ num.elem_list = <<2, 2>>
    /\ Len(jac.x) = 2
    /\ jac.ix1 = 1
    /\ jac.ix2 = 2
    /\ JacBlocks(1) # JacBlocks(2)
    /\ ~OnBoundary(jac.x[1])

(***************************************************************************)
(* C5: the operator returned by _compute_dof2coeff is the product of a     *)
(* block-diagonal matrix with the Node Sharing Map; the elem diagonal      *)
(* blocks are all the same inverse of the local basis transform and the    *)
(* matrix has nothing outside them; so the rows of an element's block have *)
(* entries only in the columns of the dofs of that element's corner nodes. *)
(***************************************************************************)
IsIdentity(M) ==
    \A i, j \in 1..Len(M) : M[i][j] = IF i = j THEN R(1) ELSE R(0)

DenseMul(A, B) ==
    [i \in 1..Len(A) |-> [j \in 1..Len(B[1]) |->
        RSum([k \in 1..Len(B) |-> RMul(A[i][k], B[k][j])], 1..Len(B))]]

C5_Operator(dc, nm) ==
    LET U == dc.full_uniq2elem
        N == dc.full_nodal2coeff
        D == dc.full_dof2coeff
        B == dc.elem_nodal2coeff
        T == nm.term
    IN /\ dc.status = "ok"
       /\ Len(B) = T
       /\ IsIdentity(DenseMul(B, dc.elem_coeff2nodal))
       /\ N.shape = <<T * nm.elem, T * nm.elem>>
       /\ \A e \in Elements(nm), i \in 0..(T - 1) :
            /\ DOMAIN N.rows[e * T + i] \subseteq (e * T)..(e * T + T - 1)
            /\ \A j \in 0..(T - 1) :
                 IF e * T + j \in DOMAIN N.rows[e * T + i]
                 THEN N.rows[e * T + i][e * T + j] = B[i + 1][j + 1]
                 ELSE B[i + 1][j + 1] = R(0)
            /\ \A c \in 0..(D.shape[2] - 1) :
                 LET S == {k \in 0..(T - 1) : c \in DOMAIN U.rows[e * T + k]}
                     v == RSum([k \in S |->
                                   RMul(B[i + 1][k + 1], U.rows[e * T + k][c])], S)
                 IN IF c \in DOMAIN D.rows[e * T + i]
                    THEN /\ D.rows[e * T + i][c] = v
                         /\ IsCornerOf(nm, ColNode(nm, c), e)
                    ELSE v = R(0)

C5_BlockDiagonal == [][Assembled => C5_Operator(d2c', num')]_vars

\* the second element of a 1 x 2 grid: its rows use none of the dofs of the
\* two nodes it does not touch
C5_Witness ==
    /\ d2c.status = "ok"
    /\ num.elem_list = <<1, 2>>
    /\ d2c.full_dof2coeff.rows[16] # <<>>
    /\ \A c \in DOMAIN d2c.full_dof2coeff.rows[16] : c \notin 0..3

C7_InvalidRejected ==
    pc = "initialized" =>
        /\ num.elem > 0
        /\ num.uniq > 0
        /\ num.coeff > 0
        /\ num.dof > 0

(***************************************************************************)
(* C8: for a grid of one element, uniq = 2^nx, elem = 1 and dof = coeff =  *)
(* term, the operator is square (16 x 16 for nx = 2), the Node Sharing Map *)
(* is a bijection between local nodal slots and global dofs, and the       *)
(* operator is one invertible block.                                       *)
(***************************************************************************)
OneElement(nm) == \A a \in 1..Len(nm.elem_list) : nm.elem_list[a] = 1

\* the transposed map applied to the local basis transform
TransposedMapTimes(U, C, T) ==
    [k \in 1..T |-> [j \in 1..T |->
        LET S == {s \in 1..T : (k - 1) \in DOMAIN U.rows[s - 1]}
        IN RSum([s \in S |-> RMul(U.rows[s - 1][k - 1], C[s][j])], S)]]

SparseToDense(D, T) ==
    [i \in 1..T |-> [j \in 1..T |->
        IF (j - 1) \in DOMAIN D.rows[i - 1] THEN D.rows[i - 1][j - 1] ELSE R(0)]]

C8_Operator(dc, nm) ==
    LET U == dc.full_uniq2elem
        D == dc.full_dof2coeff
        T == nm.term
    IN /\ dc.status = "ok"
       /\ nm.uniq = 2 ^ nm.x
       /\ nm.elem = 1
       /\ nm.dof = T
       /\ nm.coeff = T
       /\ D.shape = <<T, T>>
       /\ (nm.x = 2 => D.shape = <<16, 16>>)
       /\ \A i \in 0..(T - 1) : Cardinality(DOMAIN U.rows[i]) = 1
       /\ \A j \in 0..(T - 1) :
            Cardinality({i \in 0..(T - 1) : j \in DOMAIN U.rows[i]}) = 1
       /\ IsIdentity(DenseMul(SparseToDense(D, T),
                              TransposedMapTimes(U, dc.elem_coeff2nodal, T)))
       /\ IsIdentity(DenseMul(TransposedMapTimes(U, dc.elem_coeff2nodal, T),
                              SparseToDense(D, T)))

C8_SingleElement ==
    [][(Assembled /\ OneElement(num')) => C8_Operator(d2c', num')]_vars

C8_Witness ==
    /\ d2c.status = "ok"
    /\ num.x = 2
    /\ num.elem_list = <<1, 1>>
    /\ options.xlimits[1] = <<0, 1>>
    /\ d2c.full_dof2coeff.shape = <<16, 16>>

(***************************************************************************)
(* C9: round trip for nx = 1, elem_list = [2], xlimits = [[0, 1]]: with    *)
(* the degrees of freedom set to (f(node), f'(node)) at the three nodes    *)
(* for a cubic f, applying the Dof->Coefficient operator and then the      *)
(* evaluator at a node with derivative order 0 or 1 gives f(node) or       *)
(* f'(node).                                                               *)
(***************************************************************************)
\* the cubics c[0] + c[1] x + c[2] x^2 + c[3] x^3 with coefficients -1, 0, 1
Cubics == [0..3 -> -1..1]

Poly(c, x) ==
    RAdd(R(c[0]), RMul(x, RAdd(R(c[1]), RMul(x, RAdd(R(c[2]), RMul(x, R(c[3])))))))

DPoly(c, x) ==
    RAdd(R(c[1]), RMul(x, RAdd(R(2 * c[2]), RMul(x, R(3 * c[3])))))

NodeX(inode) ==
    RAdd(R(options.xlimits[1][1]),
         RNorm((options.xlimits[1][2] - options.xlimits[1][1]) * inode,
               num.elem_list[1]))

DofVector(c) ==
    [j \in 0..(num.dof - 1) |->
        IF j % 2 = 0 THEN Poly(c, NodeX(j \div 2)) ELSE DPoly(c, NodeX(j \div 2))]

CoeffVector(c) ==
    LET D == d2c.full_dof2coeff
        dof == DofVector(c)
    IN [r \in 0..(num.coeff - 1) |->
           RSum([j \in DOMAIN D.rows[r] |-> RMul(D.rows[r][j], dof[j])],
                DOMAIN D.rows[r])] @@ <<>>

Evaluated(c, ipt) ==
    LET coeff == CoeffVector(c)
    IN RSum([k \in JacEntries(ipt) |-> RMul(jac.data[k], coeff[jac.cols[k]])],
            JacEntries(ipt))

RoundTripCase ==
    /\ d2c.status = "ok"
    /\ jac.status = "ok"
    /\ num.x = 1
    /\ num.elem_list = <<2>>
    /\ options.xlimits = <<<<0, 1>>>>
    /\ jac.ix1 + jac.ix2 <= 1

C9_RoundTrip ==
    RoundTripCase =>
        \A ipt \in 1..Len(jac.x) :
            OnBoundary(jac.x[ipt]) =>
                \A c \in Cubics :
                    Evaluated(c, ipt) =
                        IF jac.ix1 + jac.ix2 = 0
                        THEN Poly(c, jac.x[ipt][1])
                        ELSE DPoly(c, jac.x[ipt][1])

\* the derivative is evaluated at the middle node, which two elements share
C9_Witness ==
    /\ RoundTripCase
    /\ jac.ix1 = 1
    /\ jac.x[1] = <<RNorm(1, 2)>>
    /\ Evaluated([i \in 0..3 |-> 1], 1) = RNorm(11, 4)

(***************************************************************************)
(* C10: after _initialize, elem_list has exactly nx entries for every      *)
(* accepted form of num_elements: a scalar of any Integral type v is       *)
(* broadcast to nx copies, so that elem = v^nx and uniq = (v + 1)^nx, and  *)
(* a list or array of length nx is kept entry by entry.                    *)
(***************************************************************************)
C10_ElemListLength ==
    (pc = "initialized"
       /\ (given.kind \in {"int", "integral"} \/ Len(given.val) = num.x)) =>
        /\ Len(num.elem_list) = num.x
        /\ (given.kind \in {"int", "integral"} =>
              /\ num.elem_list = [a \in 1..num.x |-> given.val[1]]
              /\ num.elem = prod([a \in 1..num.x |-> given.val[1]])
              /\ num.uniq = prod([a \in 1..num.x |-> given.val[1] + 1]))
        /\ (given.kind \in {"list", "ndarray"} => num.elem_list = given.val)

====
